---- MODULE Spec2Model ----
(***************************************************************************)
(* The user CRUD service of src/backend/app.ts, the earlier server that    *)
(* src/unnamed/part_000 holds beside the User schema, and the document     *)
(* store both of them talk to through UserModel.                           *)
(*                                                                         *)
(* A request is handled in two steps, as the handlers are: the synchronous *)
(* part (readiness guard, validation, building the store call) and, after  *)
(* the await, the store's answer and the response made from it.  Between   *)
(* the two, other requests and connection events interleave.               *)
(***************************************************************************)
EXTENDS Integers, Sequences, FiniteSets, TLC

\* ---------------------------------------------------------------- bounds
MaxReq == 3        \* requests taken in one run
MaxInFlight == 2   \* store calls awaited at the same time
MaxClock == 1      \* last tick of the store's clock (timestamps 0..MaxClock)

\* ------------------------------------------------------- program constants
Connected == 1           \* mongoose.connection.readyState of a live connection
DupKeyCode == 11000      \* the store's duplicate-key error code
LimitCap == 100          \* the largest page size

\* ----------------------------------------------------------------- strings
\* A string is a sequence of one-character strings.
IsSpace(c) == c = " "

ToLowerChar(c) ==
    CASE c = "A" -> "a"
      [] c = "B" -> "b"
      [] c = "C" -> "c"
      [] c = "N" -> "n"
      [] c = "S" -> "s"
      [] OTHER -> c

ToLowerCase(s) == [i \in 1..Len(s) |-> ToLowerChar(s[i])]

RECURSIVE TrimStart(_)
TrimStart(s) ==
    IF s # <<>> /\ IsSpace(Head(s)) THEN TrimStart(Tail(s)) ELSE s

RECURSIVE TrimEnd(_)
TrimEnd(s) ==
    IF s # <<>> /\ IsSpace(s[Len(s)]) THEN TrimEnd(SubSeq(s, 1, Len(s) - 1)) ELSE s

Trim(s) == TrimEnd(TrimStart(s))

\* ------------------------------------------------------------- JSON values
Str(s) == [t |-> "string", s |-> s]
Undefined == [t |-> "undefined", s |-> <<>>]
Num == [t |-> "number", s |-> <<>>]

\* A request body: obj is FALSE for a body that is no object (null, absent).
Body(n, e) == [obj |-> TRUE, name |-> n, email |-> e]
NoBody == [obj |-> FALSE, name |-> Undefined, email |-> Undefined]

\* --------------------------------------------------------------- validation
isUserInput(value) ==
    /\ value.obj
    /\ value.name.t = "string"
    /\ value.email.t = "string"

\* /^[^\s@]+@[^\s@]+\.[^\s@]+$/ : one "@", no white space, and a "." after
\* the "@" with at least one character on each side of it.
looksLikeEmail(email) ==
    \E i \in 1..Len(email) :
        /\ email[i] = "@"
        /\ i > 1
        /\ \A k \in 1..Len(email) : ~IsSpace(email[k]) /\ (email[k] = "@" => k = i)
        /\ \E j \in (i + 2)..(Len(email) - 1) : email[j] = "."

\* Identifiers are numbers here: n >= 1 stands for the n-th ObjectId the store
\* hands out, 0 for an id string that is no ObjectId.
isValidObjectId(id) == id >= 1

\* -------------------------------------------------------------------- state
VARIABLES
    entry,       \* which server runs: "app" (app.ts) or "legacy" (part_000)
    hasUri,      \* whether the connection string is configured
    pc,          \* start(): uninitialized, connecting, ready, serving, failed, stopped
    exitCode,    \* the process's exit code, -1 while it runs
    reported,    \* whether a startup error was written to the console
    readyState,  \* mongoose.connection.readyState
    indexBuilt,  \* whether the unique index on email exists (UserModel.init)
    listening,   \* whether app.listen was called
    store,       \* the users collection: a set of documents
    nextId,      \* the next ObjectId the store hands out
    clock,       \* the store's clock, for createdAt and updatedAt
    pending,     \* store calls issued by handlers and not yet answered
    nreq,        \* requests taken so far
    last,        \* the request answered last, with its response
    acks         \* the ids whose deletion was answered 204, in order

vars == << entry, hasUri, pc, exitCode, reported, readyState, indexBuilt,
           listening, store, nextId, clock, pending, nreq, last, acks >>

bootVars == << entry, hasUri, pc, exitCode, reported, indexBuilt, listening >>

NoUser == [name |-> <<>>, email |-> <<>>]
NoErr == [name |-> "", code |-> 0]
NoQuery == [page |-> 0, limit |-> 0, sortBy |-> "", order |-> <<>>, email |-> <<>>, q |-> <<>>]
NoMeta == [total |-> 0, totalPages |-> 0, hasNext |-> FALSE, hasPrev |-> FALSE]

\* A response: what was asked (op, id, body, query), the readiness the guard
\* saw (rs), the store calls the handler made (calls), the store's error if
\* any (err), and the answer (status, error, user, rows, meta).
Resp(op, id, body, rs, calls, err, status, error, user) ==
    [op |-> op, id |-> id, body |-> body, query |-> NoQuery, rs |-> rs,
     calls |-> calls, err |-> err, status |-> status, error |-> error,
     user |-> user, rows |-> <<>>, meta |-> NoMeta, quiet |-> TRUE, live |-> FALSE]

\* A store call in flight.  live, quiet, rows and total are bookkeeping:
\* whether the document named by id existed when the call was issued, and
\* the halves of a paged query that have already been answered.
Call(rid, op, id, body, doc, rs) ==
    [rid |-> rid, op |-> op, id |-> id, body |-> body, doc |-> doc,
     query |-> NoQuery, rs |-> rs, live |-> \E u \in store : u.id = id,
     rows |-> <<>>, rowsDone |-> FALSE, total |-> 0, totalDone |-> FALSE,
     quiet |-> TRUE]

Init ==
    /\ entry \in {"app", "legacy"}
    /\ hasUri \in BOOLEAN
    /\ pc = "uninitialized"
    /\ exitCode = -1
    /\ reported = FALSE
    /\ readyState = 0
    /\ indexBuilt = FALSE
    /\ listening = FALSE
    /\ store = {}
    /\ nextId = 1
    /\ clock = 0
    /\ pending = {}
    /\ nreq = 0
    /\ last = Resp("none", 0, NoBody, 0, 0, NoErr, 0, "", NoUser)
    /\ acks = <<>>

\* ------------------------------------------------------------------ startup
\* app.ts start(): without a connection string, report and exit(1); else
\* begin connecting.
start ==
    /\ entry = "app"
    /\ pc = "uninitialized"
    /\ IF ~hasUri
         THEN /\ pc' = "failed"
              /\ reported' = TRUE
              /\ exitCode' = 1
              /\ UNCHANGED readyState
         ELSE /\ pc' = "connecting"
              /\ readyState' = 2
              /\ UNCHANGED << reported, exitCode >>
    /\ UNCHANGED << entry, hasUri, indexBuilt, listening, store, nextId, clock,
                    pending, nreq, last, acks >>

\* part_000 start(): without a connection string it throws; nothing catches
\* the rejected promise, so the runtime prints it and ends the process with
\* exit code 1.
legacyStart ==
    /\ entry = "legacy"
    /\ pc = "uninitialized"
    /\ IF ~hasUri
         THEN /\ pc' = "failed"
              /\ reported' = TRUE
              /\ exitCode' = 1
              /\ UNCHANGED readyState
         ELSE /\ pc' = "connecting"
              /\ readyState' = 2
              /\ UNCHANGED << reported, exitCode >>
    /\ UNCHANGED << entry, hasUri, indexBuilt, listening, store, nextId, clock,
                    pending, nreq, last, acks >>

\* connectOk with app.listen called before UserModel.init() is awaited.
connectOkThenListen ==
    /\ pc = "connecting"
    /\ pc' = "ready"
    /\ readyState' = Connected
    /\ listening' = TRUE
    /\ UNCHANGED << entry, hasUri, exitCode, reported, indexBuilt,
                    store, nextId, clock, pending, nreq, last, acks >>

\* mongoose.connect resolves: start() goes on to await UserModel.init().
connectOk ==
    /\ pc = "connecting"
    /\ pc' = "ready"
    /\ readyState' = Connected
    /\ UNCHANGED << entry, hasUri, exitCode, reported, indexBuilt, listening,
                    store, nextId, clock, pending, nreq, last, acks >>

\* connectFail with the rejection reported and start() going on to listen.
connectFailIgnored ==
    /\ pc = "connecting"
    /\ pc' = "serving"
    /\ readyState' = 0
    /\ reported' = TRUE
    /\ listening' = TRUE
    /\ UNCHANGED << entry, hasUri, exitCode, indexBuilt, store, nextId, clock,
                    pending, nreq, last, acks >>

\* mongoose.connect rejects: start().catch reports and exits with 1 (app.ts);
\* the unhandled rejection does the same (part_000).
connectFail ==
    /\ pc = "connecting"
    /\ pc' = "failed"
    /\ readyState' = 0
    /\ reported' = TRUE
    /\ exitCode' = 1
    /\ UNCHANGED << entry, hasUri, indexBuilt, listening, store, nextId, clock,
                    pending, nreq, last, acks >>

\* UserModel.init() resolves (the unique index on email is built) and the
\* next statement of start() is app.listen.
initOk ==
    /\ pc = "ready"
    /\ pc' = "serving"
    /\ indexBuilt' = TRUE
    /\ listening' = TRUE
    /\ UNCHANGED << entry, hasUri, exitCode, reported, readyState, store,
                    nextId, clock, pending, nreq, last, acks >>

\* UserModel.init() rejects: the same exit as a failed connection.
initFail ==
    /\ pc = "ready"
    /\ pc' = "failed"
    /\ reported' = TRUE
    /\ exitCode' = 1
    /\ UNCHANGED << entry, hasUri, readyState, indexBuilt, listening, store,
                    nextId, clock, pending, nreq, last, acks >>

\* The connection drops while the service runs, and comes back.
disconnected ==
    /\ pc = "serving"
    /\ readyState = Connected
    /\ readyState' = 0
    /\ UNCHANGED << bootVars, acks, store, nextId, clock, pending, nreq, last, acks >>

reconnected ==
    /\ pc = "serving"
    /\ readyState = 0
    /\ readyState' = Connected
    /\ UNCHANGED << bootVars, acks, store, nextId, clock, pending, nreq, last, acks >>

\* part_000 shutdown(): on SIGINT or SIGTERM close the connection, exit(0).
shutdown ==
    /\ entry = "legacy"
    /\ pc = "serving"
    /\ pc' = "stopped"
    /\ readyState' = 0
    /\ exitCode' = 0
    /\ UNCHANGED << entry, hasUri, reported, indexBuilt, listening, store,
                    nextId, clock, pending, nreq, last, acks >>

\* The store's clock advances.
tick ==
    /\ clock < MaxClock
    /\ clock' = clock + 1
    /\ UNCHANGED << bootVars, acks, readyState, store, nextId, pending, nreq, last >>

\* A request can be taken: the server listens and the process runs.
Accepting ==
    /\ listening
    /\ pc \notin {"failed", "stopped"}
    /\ nreq < MaxReq

\* A store call can be issued: the bound on calls in flight leaves room.
CanIssue == Cardinality(pending) < MaxInFlight

\* The lowest slot no call in flight holds.
FreeSlot ==
    CHOOSE k \in 1..(MaxInFlight + 1) :
        /\ \A c \in pending : c.rid # k
        /\ \A j \in 1..(k - 1) : \E c \in pending : c.rid = j

\* A write reached the store: a paged query with one half answered has now
\* been overtaken by it.
Disturb(calls) ==
    { IF c.op = "list" /\ c.rowsDone # c.totalDone
        THEN [c EXCEPT !.quiet = FALSE] ELSE c : c \in calls }

\* The calls left in flight once c is answered and the store is s.
Settle(c, s) ==
    IF s = store THEN pending \ {c} ELSE Disturb(pending \ {c})

\* ------------------------------------------------------------------- store
\* SchemaCast without trim: true on either path.
SchemaCastNoTrim(doc) == [name |-> doc.name, email |-> ToLowerCase(doc.email)]

\* UserSchema's setters: name trimmed, email trimmed and lowercased.
SchemaCast(doc) ==
    [name |-> Trim(doc.name), email |-> ToLowerCase(Trim(doc.email))]

\* UserSchema's validators: required, which a string passes when not empty.
SchemaValid(doc) == doc.name # <<>> /\ doc.email # <<>>

ValidationError == [name |-> "ValidationError", code |-> 0]
DuplicateKey == [name |-> "MongoServerError", code |-> DupKeyCode]

\* What the environment does to a store call: nothing, a server-side error
\* other than a duplicate key, a network error.
Faults == {"none", "server", "network"}

FaultErr(fault) ==
    IF fault = "server" THEN [name |-> "MongoServerError", code |-> 13]
    ELSE [name |-> "MongoNetworkError", code |-> 0]

\* A call is answered without a fault only over a live connection.
Answerable(fault) == fault = "network" \/ readyState = Connected

\* The unique index on email: no other document holds this email.
UniqueOk(email, self) ==
    indexBuilt => \A u \in store : u.id # self => u.email # email

\* UserModel.create(doc): [err, store, doc].
ModelCreate(doc, fault) ==
    LET c == SchemaCast(doc)
        d == [id |-> nextId, name |-> c.name, email |-> c.email,
              createdAt |-> clock, updatedAt |-> clock]
    IN  IF ~SchemaValid(c)
            THEN [err |-> ValidationError, store |-> store, doc |-> NoUser]
        ELSE IF fault # "none"
            THEN [err |-> FaultErr(fault), store |-> store, doc |-> NoUser]
        ELSE IF ~UniqueOk(c.email, 0)
            THEN [err |-> DuplicateKey, store |-> store, doc |-> NoUser]
        ELSE [err |-> NoErr, store |-> store \cup {d},
              doc |-> [name |-> d.name, email |-> d.email]]

\* -------------------------------------------------------------- responses
\* requireDbReady: TRUE when the request is let through.
requireDbReady(rs) == rs = Connected

\* routeFail and the final error handler: 500.
Unexpected(op, id, body, rs, calls, err) ==
    Resp(op, id, body, rs, calls, err, 500, "Internal Server Error", NoUser)

Unavailable(op, id, body, rs) ==
    Resp(op, id, body, rs, 0, NoErr, 503, "Database not connected", NoUser)

BadRequest(op, id, body, rs, error) ==
    Resp(op, id, body, rs, 0, NoErr, 400, error, NoUser)

\* ------------------------------------------------- POST /api/users (app.ts)
\* PostInvalid without the test of the email's shape.
PostInvalidShapeOnly(body) ==
    IF ~isUserInput(body) THEN "Invalid body: 'name' and 'email' must be strings."
    ELSE ""

\* The 400 the handler answers before any store call, "" when there is none.
PostInvalid(body) ==
    IF ~isUserInput(body) THEN "Invalid body: 'name' and 'email' must be strings."
    ELSE IF ~looksLikeEmail(body.email.s) THEN "Please provide a valid email address."
    ELSE ""

\* The document handed to UserModel.create.
PostDoc(body) ==
    [name |-> Trim(body.name.s), email |-> ToLowerCase(Trim(body.email.s))]

\* The catch of POST /api/users: the duplicate-key test.
IsDuplicate(err) == err.code = DupKeyCode \/ err.name = "MongoServerError"

PostUsers(body) ==
    /\ entry = "app"
    /\ Accepting
    /\ IF ~requireDbReady(readyState)
         THEN /\ last' = Unavailable("create", 0, body, readyState)
              /\ nreq' = nreq + 1
              /\ UNCHANGED pending
       ELSE IF PostInvalid(body) # ""
         THEN /\ last' = BadRequest("create", 0, body, readyState, PostInvalid(body))
              /\ nreq' = nreq + 1
              /\ UNCHANGED pending
       ELSE /\ CanIssue
            /\ nreq' = nreq + 1
            /\ pending' = pending \cup
                 {Call(FreeSlot, "create", 0, body, PostDoc(body), readyState)}
            /\ UNCHANGED last
    /\ UNCHANGED << bootVars, acks, readyState, store, nextId, clock >>

\* The store answers UserModel.create and the handler responds.
PostUsersDone(c, fault) ==
    /\ c \in pending
    /\ c.op = "create"
    /\ entry = "app"
    /\ Answerable(fault)
    /\ LET r == ModelCreate(c.doc, fault)
       IN  /\ store' = r.store
           /\ nextId' = IF r.err = NoErr THEN nextId + 1 ELSE nextId
           /\ last' =
                IF r.err = NoErr
                  THEN Resp("create", nextId, c.body, c.rs, 1, NoErr, 201,
                            "", r.doc)
                ELSE IF IsDuplicate(r.err)
                  THEN Resp("create", 0, c.body, c.rs, 1, r.err, 409,
                            "Email already exists.", NoUser)
                ELSE Unexpected("create", 0, c.body, c.rs, 1, r.err)
    /\ pending' = Settle(c, store')
    /\ UNCHANGED << bootVars, acks, readyState, clock, nreq >>

\* ----------------------------------------------- POST /api/users (part_000)
\* The earlier server hands the body's strings to the model as they are.
LegacyPostDoc(body) == [name |-> body.name.s, email |-> body.email.s]

\* No readiness guard: with the connection down the call is buffered.
LegacyPostUsers(body) ==
    /\ entry = "legacy"
    /\ Accepting
    /\ IF PostInvalid(body) # ""
         THEN /\ last' = BadRequest("create", 0, body, readyState, PostInvalid(body))
              /\ nreq' = nreq + 1
              /\ UNCHANGED pending
       ELSE /\ CanIssue
            /\ nreq' = nreq + 1
            /\ pending' = pending \cup
                 {Call(FreeSlot, "create", 0, body, LegacyPostDoc(body), readyState)}
            /\ UNCHANGED last
    /\ UNCHANGED << bootVars, acks, readyState, store, nextId, clock >>

\* Its catch: 409 for code 11000, 400 for a ValidationError, anything else is
\* rethrown and reaches the error middleware (500).
LegacyPostUsersDone(c, fault) ==
    /\ c \in pending
    /\ c.op = "create"
    /\ entry = "legacy"
    /\ Answerable(fault)
    /\ LET r == ModelCreate(c.doc, fault)
       IN  /\ store' = r.store
           /\ nextId' = IF r.err = NoErr THEN nextId + 1 ELSE nextId
           /\ last' =
                IF r.err = NoErr
                  THEN Resp("create", nextId, c.body, c.rs, 1, NoErr, 201,
                            "", r.doc)
                ELSE IF r.err.code = DupKeyCode
                  THEN Resp("create", 0, c.body, c.rs, 1, r.err, 409,
                            "Email already exists.", NoUser)
                ELSE IF r.err.name = "ValidationError"
                  THEN Resp("create", 0, c.body, c.rs, 1, r.err, 400,
                            "User validation failed", NoUser)
                ELSE Unexpected("create", 0, c.body, c.rs, 1, r.err)
    /\ pending' = Settle(c, store')
    /\ UNCHANGED << bootVars, acks, readyState, clock, nreq >>

\* ------------------------------------------------ GET /api/users (part_000)
LegacyGetUsers ==
    /\ entry = "legacy"
    /\ Accepting
    /\ CanIssue
    /\ nreq' = nreq + 1
    /\ pending' = pending \cup
         {Call(FreeSlot, "users", 0, NoBody, NoUser, readyState)}
    /\ UNCHANGED << bootVars, acks, readyState, store, nextId, clock, last >>

\* UserModel.find() answers with every document; a failure reaches the error
\* middleware.
LegacyGetUsersDone(c, fault) ==
    /\ c \in pending
    /\ c.op = "users"
    /\ Answerable(fault)
    /\ last' =
         IF fault # "none"
           THEN Unexpected("users", 0, NoBody, c.rs, 1, FaultErr(fault))
         ELSE [Resp("users", 0, NoBody, c.rs, 1, NoErr, 200, "", NoUser)
                 EXCEPT !.meta.total = Cardinality(store)]
    /\ pending' = pending \ {c}
    /\ UNCHANGED << bootVars, acks, readyState, store, nextId, clock, nreq >>

\* ---------------------------------------------------- GET /api/users/:id
GetUser(id) ==
    /\ entry = "app"
    /\ Accepting
    /\ IF ~requireDbReady(readyState)
         THEN /\ last' = Unavailable("get", id, NoBody, readyState)
              /\ nreq' = nreq + 1
              /\ UNCHANGED pending
       ELSE IF ~isValidObjectId(id)
         THEN /\ last' = BadRequest("get", id, NoBody, readyState, "Invalid user id.")
              /\ nreq' = nreq + 1
              /\ UNCHANGED pending
       ELSE /\ CanIssue
            /\ nreq' = nreq + 1
            /\ pending' = pending \cup
                 {Call(FreeSlot, "get", id, NoBody, NoUser, readyState)}
            /\ UNCHANGED last
    /\ UNCHANGED << bootVars, acks, readyState, store, nextId, clock >>

\* UserModel.findById(id): the documents with that id (none or one).
ModelFindById(id) == { u \in store : u.id = id }

GetUserDone(c, fault) ==
    /\ c \in pending
    /\ c.op = "get"
    /\ Answerable(fault)
    /\ last' =
         IF fault # "none"
           THEN [Unexpected("get", c.id, NoBody, c.rs, 1, FaultErr(fault))
                   EXCEPT !.live = c.live]
         ELSE IF ModelFindById(c.id) = {}
           THEN [Resp("get", c.id, NoBody, c.rs, 1, NoErr, 404,
                      "User not found.", NoUser) EXCEPT !.live = c.live]
         ELSE LET u == CHOOSE u \in ModelFindById(c.id) : TRUE
              IN  [Resp("get", c.id, NoBody, c.rs, 1, NoErr, 200, "",
                        [name |-> u.name, email |-> u.email])
                     EXCEPT !.live = c.live]
    /\ pending' = pending \ {c}
    /\ UNCHANGED << bootVars, acks, readyState, store, nextId, clock, nreq >>

\* ---------------------------------------------------- PUT /api/users/:id
\* The 400 the handler answers before any store call, "" when there is none.
PutInvalid(id, body) ==
    IF ~isValidObjectId(id) THEN "Invalid user id."
    ELSE IF body.name.t = "undefined" /\ body.email.t = "undefined"
        THEN "Provide at least one of: name, email."
    ELSE IF body.name.t # "undefined" /\ body.name.t # "string"
        THEN "Field 'name' must be a string."
    ELSE IF body.email.t # "undefined" /\ body.email.t # "string"
        THEN "Field 'email' must be a string."
    ELSE IF body.email.t # "undefined" /\ ~looksLikeEmail(body.email.s)
        THEN "Please provide a valid email address."
    ELSE ""

\* The $set document: only the fields the body gives.
PutUpdate(body) ==
    [name |-> IF body.name.t # "undefined" THEN Str(Trim(body.name.s)) ELSE Undefined,
     email |-> IF body.email.t # "undefined"
                 THEN Str(ToLowerCase(Trim(body.email.s))) ELSE Undefined]

PutUser(id, body) ==
    /\ entry = "app"
    /\ Accepting
    /\ IF ~requireDbReady(readyState)
         THEN /\ last' = Unavailable("update", id, body, readyState)
              /\ nreq' = nreq + 1
              /\ UNCHANGED pending
       ELSE IF PutInvalid(id, body) # ""
         THEN /\ last' = BadRequest("update", id, body, readyState, PutInvalid(id, body))
              /\ nreq' = nreq + 1
              /\ UNCHANGED pending
       ELSE /\ CanIssue
            /\ nreq' = nreq + 1
            /\ pending' = pending \cup
                 {Call(FreeSlot, "update", id, body, PutUpdate(body), readyState)}
            /\ UNCHANGED last
    /\ UNCHANGED << bootVars, acks, readyState, store, nextId, clock >>

\* ApplySet as a replacement of the document: a field the update does not
\* give is lost.
ApplyReplace(u, update) ==
    [u EXCEPT
       !.name = IF update.name.t = "string" THEN Trim(update.name.s) ELSE <<>>,
       !.email = IF update.email.t = "string"
                   THEN ToLowerCase(Trim(update.email.s)) ELSE <<>>,
       !.updatedAt = clock]

\* The document u after $set of the cast update, with updatedAt renewed.
ApplySet(u, update) ==
    [u EXCEPT
       !.name = IF update.name.t = "string" THEN Trim(update.name.s) ELSE @,
       !.email = IF update.email.t = "string"
                   THEN ToLowerCase(Trim(update.email.s)) ELSE @,
       !.updatedAt = clock]

\* UserModel.findByIdAndUpdate(id, {$set: update}, {new, runValidators}):
\* the validators run on the paths the update sets, before the store is asked.
ModelUpdate(id, update, fault) ==
    LET hit == ModelFindById(id)
    IN  IF \/ update.name.t = "string" /\ Trim(update.name.s) = <<>>
           \/ update.email.t = "string" /\ Trim(update.email.s) = <<>>
            THEN [err |-> ValidationError, store |-> store, found |-> FALSE, doc |-> NoUser]
        ELSE IF fault # "none"
            THEN [err |-> FaultErr(fault), store |-> store, found |-> FALSE, doc |-> NoUser]
        ELSE IF hit = {}
            THEN [err |-> NoErr, store |-> store, found |-> FALSE, doc |-> NoUser]
        ELSE LET u == CHOOSE u \in hit : TRUE
                 v == ApplySet(u, update)
             IN  IF ~UniqueOk(v.email, id)
                   THEN [err |-> DuplicateKey, store |-> store, found |-> FALSE,
                         doc |-> NoUser]
                 ELSE [err |-> NoErr, store |-> (store \ {u}) \cup {v},
                       found |-> TRUE, doc |-> [name |-> v.name, email |-> v.email]]

PutUserDone(c, fault) ==
    /\ c \in pending
    /\ c.op = "update"
    /\ Answerable(fault)
    /\ LET r == ModelUpdate(c.id, c.doc, fault)
       IN  /\ store' = r.store
           /\ last' =
                IF r.err # NoErr /\ IsDuplicate(r.err)
                  THEN Resp("update", c.id, c.body, c.rs, 1, r.err, 409,
                            "Email already exists.", NoUser)
                ELSE IF r.err # NoErr
                  THEN Unexpected("update", c.id, c.body, c.rs, 1, r.err)
                ELSE IF ~r.found
                  THEN Resp("update", c.id, c.body, c.rs, 1, NoErr, 404,
                            "User not found.", NoUser)
                ELSE Resp("update", c.id, c.body, c.rs, 1, NoErr, 200, "", r.doc)
    /\ pending' = Settle(c, store')
    /\ UNCHANGED << bootVars, acks, readyState, nextId, clock, nreq >>

\* -------------------------------------------------- DELETE /api/users/:id
DeleteUser(id) ==
    /\ entry = "app"
    /\ Accepting
    /\ IF ~requireDbReady(readyState)
         THEN /\ last' = Unavailable("delete", id, NoBody, readyState)
              /\ nreq' = nreq + 1
              /\ UNCHANGED pending
       ELSE IF ~isValidObjectId(id)
         THEN /\ last' = BadRequest("delete", id, NoBody, readyState, "Invalid user id.")
              /\ nreq' = nreq + 1
              /\ UNCHANGED pending
       ELSE /\ CanIssue
            /\ nreq' = nreq + 1
            /\ pending' = pending \cup
                 {Call(FreeSlot, "delete", id, NoBody, NoUser, readyState)}
            /\ UNCHANGED last
    /\ UNCHANGED << bootVars, acks, readyState, store, nextId, clock >>

\* ModelDelete that finds the document and removes nothing.
ModelDeleteNothing(id) == store

\* UserModel.findByIdAndDelete(id): the store without that document.
ModelDelete(id) == { u \in store : u.id # id }

DeleteUserDone(c, fault) ==
    /\ c \in pending
    /\ c.op = "delete"
    /\ Answerable(fault)
    /\ store' = IF fault = "none" THEN ModelDelete(c.id) ELSE store
    /\ last' =
         IF fault # "none"
           THEN [Unexpected("delete", c.id, NoBody, c.rs, 1, FaultErr(fault))
                   EXCEPT !.live = c.live]
         ELSE IF ModelFindById(c.id) = {}
           THEN [Resp("delete", c.id, NoBody, c.rs, 1, NoErr, 404,
                      "User not found.", NoUser) EXCEPT !.live = c.live]
         ELSE [Resp("delete", c.id, NoBody, c.rs, 1, NoErr, 204, "", NoUser)
                 EXCEPT !.live = c.live]
    /\ acks' = IF last'.status = 204 THEN Append(acks, c.id) ELSE acks
    /\ pending' = Settle(c, store')
    /\ UNCHANGED << bootVars, readyState, nextId, clock, nreq >>

\* --------------------------------------------------- GET /api/users/paged
\* Binary order of the characters that occur.
CharCode(c) ==
    CASE c = " " -> 32 [] c = "." -> 46 [] c = "@" -> 64
      [] c = "A" -> 65 [] c = "B" -> 66 [] c = "C" -> 67 [] c = "N" -> 78
      [] c = "a" -> 97 [] c = "b" -> 98 [] c = "c" -> 99
      [] c = "m" -> 109 [] c = "n" -> 110
      [] OTHER -> 127

RECURSIVE StrLeq(_, _)
StrLeq(a, b) ==
    IF a = <<>> THEN TRUE
    ELSE IF b = <<>> THEN FALSE
    ELSE IF Head(a) = Head(b) THEN StrLeq(Tail(a), Tail(b))
    ELSE CharCode(Head(a)) < CharCode(Head(b))

\* u sorts no later than v by the field, ascending.
KeyLeq(u, v, sortBy) ==
    CASE sortBy = "name" -> StrLeq(u.name, v.name)
      [] sortBy = "email" -> StrLeq(u.email, v.email)
      [] sortBy = "createdAt" -> u.createdAt <= v.createdAt
      [] OTHER -> u.updatedAt <= v.updatedAt

\* s occurs in t.
Contains(t, s) ==
    \E i \in 0..(Len(t) - Len(s)) : SubSeq(t, i + 1, i + Len(s)) = s

\* page, limit, sortBy, order, q and email as the handler reads them.
PagedPage(query) == IF query.page > 1 THEN query.page ELSE 1

PagedLimit(query) ==
    LET l == IF query.limit > 1 THEN query.limit ELSE 1
    IN  IF l < LimitCap THEN l ELSE LimitCap

PagedOrder(query) == IF ToLowerCase(query.order) = <<"a", "s", "c">> THEN 1 ELSE -1

AllowedSort == {"name", "email", "createdAt", "updatedAt"}

\* The filter: an exact email when one is given, else the text q in name or
\* email without regard to case, else everything.
Matches(u, query) ==
    LET email == ToLowerCase(Trim(query.email))
        q == Trim(query.q)
    IN  IF email # <<>> THEN u.email = email
        ELSE IF q # <<>>
          THEN \/ Contains(ToLowerCase(u.name), ToLowerCase(q))
               \/ Contains(ToLowerCase(u.email), ToLowerCase(q))
        ELSE TRUE

Matching(query) == { u \in store : Matches(u, query) }

\* Skip counted from page 1 as if from page 0.
SkipOneTooMany(query) == PagedPage(query) * PagedLimit(query)

Skip(query) == (PagedPage(query) - 1) * PagedLimit(query)

\* The orders sort() may give S: every arrangement of S that respects the
\* key (documents with equal keys come in any order).
Sorted(S, sortBy, order) ==
    { f \in [1..Cardinality(S) -> S] :
        /\ \A i, j \in 1..Cardinality(S) : i # j => f[i] # f[j]
        /\ \A i, j \in 1..Cardinality(S) :
             i < j => IF order = 1 THEN KeyLeq(f[i], f[j], sortBy)
                      ELSE KeyLeq(f[j], f[i], sortBy) }

Project(u) == [id |-> u.id, name |-> u.name, email |-> u.email, createdAt |-> u.createdAt]

\* skip(n).limit(l) of the sorted sequence f, projected.
Window(f, n, l) ==
    LET hi == IF n + l < Len(f) THEN n + l ELSE Len(f)
    IN  [i \in 1..(IF hi > n THEN hi - n ELSE 0) |-> Project(f[n + i])]

CeilDiv(a, b) == (a + b - 1) \div b

TotalPages(total, limit) ==
    IF CeilDiv(total, limit) > 1 THEN CeilDiv(total, limit) ELSE 1

PagedMeta(query, total) ==
    [total |-> total,
     totalPages |-> TotalPages(total, PagedLimit(query)),
     hasNext |-> PagedPage(query) < TotalPages(total, PagedLimit(query)),
     hasPrev |-> PagedPage(query) > 1]

PagedResp(c, rows, total) ==
    [Resp("list", 0, NoBody, c.rs, 2, NoErr, 200, "", NoUser)
       EXCEPT !.query = c.query, !.rows = rows,
              !.meta = PagedMeta(c.query, total), !.quiet = c.quiet]

GetPaged(query) ==
    /\ entry = "app"
    /\ Accepting
    /\ IF ~requireDbReady(readyState)
         THEN /\ last' = [Unavailable("list", 0, NoBody, readyState)
                            EXCEPT !.query = query]
              /\ nreq' = nreq + 1
              /\ UNCHANGED pending
       ELSE IF query.sortBy \notin AllowedSort
         THEN /\ last' = [BadRequest("list", 0, NoBody, readyState, "Invalid sortBy")
                            EXCEPT !.query = query]
              /\ nreq' = nreq + 1
              /\ UNCHANGED pending
       ELSE /\ CanIssue
            /\ nreq' = nreq + 1
            /\ pending' = pending \cup
                 {[Call(FreeSlot, "list", 0, NoBody, NoUser, readyState)
                     EXCEPT !.query = query]}
            /\ UNCHANGED last
    /\ UNCHANGED << bootVars, acks, readyState, store, nextId, clock >>

\* One half of Promise.all fails: routeFail answers, the other half is dropped.
PagedFail(c, fault) ==
    /\ c \in pending
    /\ c.op = "list"
    /\ fault # "none"
    /\ Answerable(fault)
    /\ last' = [Unexpected("list", 0, NoBody, c.rs, 2, FaultErr(fault))
                  EXCEPT !.query = c.query]
    /\ pending' = pending \ {c}
    /\ UNCHANGED << bootVars, acks, readyState, store, nextId, clock, nreq >>

\* UserModel.find(filter).select().sort().skip().limit() is answered.
PagedFind(c, f) ==
    /\ c \in pending
    /\ c.op = "list"
    /\ ~c.rowsDone
    /\ readyState = Connected
    /\ f \in Sorted(Matching(c.query), c.query.sortBy, PagedOrder(c.query))
    /\ LET rows == Window(f, Skip(c.query), PagedLimit(c.query))
       IN  IF c.totalDone
             THEN /\ last' = PagedResp(c, rows, c.total)
                  /\ pending' = pending \ {c}
             ELSE /\ pending' = (pending \ {c}) \cup
                        {[c EXCEPT !.rows = rows, !.rowsDone = TRUE]}
                  /\ UNCHANGED last
    /\ UNCHANGED << bootVars, acks, readyState, store, nextId, clock, nreq >>

\* UserModel.countDocuments(filter) is answered.
PagedCount(c) ==
    /\ c \in pending
    /\ c.op = "list"
    /\ ~c.totalDone
    /\ readyState = Connected
    /\ LET total == Cardinality(Matching(c.query))
       IN  IF c.rowsDone
             THEN /\ last' = PagedResp(c, c.rows, total)
                  /\ pending' = pending \ {c}
             ELSE /\ pending' = (pending \ {c}) \cup
                        {[c EXCEPT !.total = total, !.totalDone = TRUE]}
                  /\ UNCHANGED last
    /\ UNCHANGED << bootVars, acks, readyState, store, nextId, clock, nreq >>

\* ------------------------------------------------------------------ inputs
nA == <<"n">>
nM == <<"m">>
eA == <<"a", "@", "b", ".", "c">>
eB == <<"b", "@", "b", ".", "c">>

\* Bodies a client may post: well-formed ones, ones that differ from them in
\* case and white space only, and malformed ones.
CreateBodies ==
    { Body(Str(nA), Str(eA)),
      Body(Str(<<" ", "n", " ">>), Str(<<"A", "@", "B", ".", "c">>)),
      Body(Str(nM), Str(<<" ", "a", "@", "b", ".", "c">>)),
      Body(Str(nM), Str(eB)),
      Body(Str(<<" ", " ">>), Str(eB)),
      Body(Undefined, Str(eA)),
      Body(Str(nA), Num),
      Body(Str(nA), Str(<<"a", "b", ".", "c">>)),
      NoBody }

UpdateBodies ==
    { Body(Str(nM), Undefined),
      Body(Str(<<" ", "m", " ">>), Str(<<"B", "@", "b", ".", "c">>)),
      Body(Undefined, Str(eA)),
      Body(Undefined, Str(<<"a", "@", "b", ".", "c", " ">>)),
      Body(Str(<<" ">>), Undefined),
      Body(Num, Undefined),
      Body(Undefined, Num),
      Body(Undefined, Undefined) }

\* The bodies whose fields are strings or absent: the ones that can reach the
\* store, and one whose email has white space before it.
StringBodies == { b \in CreateBodies : isUserInput(b) /\ b.email.s # <<"a", "b", ".", "c">> }

StringUpdates ==
    { b \in UpdateBodies :
        /\ b.name.t # "number" /\ b.email.t # "number"
        /\ b.name.t = "string" \/ b.email.t = "string" }

\* Identifiers a client may name: 0 is malformed, the others well formed.
Ids == 0..MaxReq

Query(page, limit, sortBy, order, email, q) ==
    [page |-> page, limit |-> limit, sortBy |-> sortBy, order |-> order,
     email |-> email, q |-> q]

asc == <<"a", "s", "c">>
desc == <<"d", "e", "s", "c">>

\* ------------------------------------------------------------------- steps
Boot ==
    \/ start
    \/ legacyStart
    \/ connectOk
    \/ connectFail
    \/ initOk
    \/ initFail
    \/ disconnected
    \/ reconnected
    \/ shutdown

\* The store answers a call in flight.
Steps ==
    \/ \E c \in pending, f \in Faults : PostUsersDone(c, f)
    \/ \E c \in pending, f \in Faults : LegacyPostUsersDone(c, f)
    \/ \E c \in pending, f \in Faults : LegacyGetUsersDone(c, f)
    \/ \E c \in pending, f \in Faults : GetUserDone(c, f)
    \/ \E c \in pending, f \in Faults : PutUserDone(c, f)
    \/ \E c \in pending, f \in Faults : DeleteUserDone(c, f)

PagedSteps ==
    \/ \E c \in pending, f \in Faults : PagedFail(c, f)
    \/ \E c \in pending :
         \E f \in Sorted(Matching(c.query), c.query.sortBy, PagedOrder(c.query)) :
             PagedFind(c, f)
    \/ \E c \in pending : PagedCount(c)

\* ----------------------------------------------------------- specifications
\* Spec: both servers from start to shutdown, every route, few inputs.
Next ==
    \/ Boot
    \/ Steps
    \/ PagedSteps
    \/ tick
    \/ PostUsers(Body(Str(nA), Str(eA)))
    \/ LegacyPostUsers(Body(Str(nA), Str(eA)))
    \/ LegacyGetUsers
    \/ GetUser(1)
    \/ PutUser(1, Body(Str(nM), Undefined))
    \/ DeleteUser(1)
    \/ GetPaged(Query(1, 2, "createdAt", desc, <<>>, <<>>))

Spec == Init /\ [][Next]_vars

\* SpecWrites: creates and updates of either server, with every body above.
WriteIds == 1..2

NextWrites ==
    \/ Boot
    \/ \E c \in pending, f \in Faults : PostUsersDone(c, f)
    \/ \E c \in pending, f \in Faults : LegacyPostUsersDone(c, f)
    \/ \E c \in pending, f \in Faults : PutUserDone(c, f)
    \/ \E b \in StringBodies : PostUsers(b)
    \/ \E b \in StringBodies : LegacyPostUsers(b)
    \/ \E i \in WriteIds, b \in StringUpdates : PutUser(i, b)

SpecWrites == Init /\ [][NextWrites]_vars

\* SpecApp: app.ts alone, creates and updates with every body above.
InitApp == Init /\ entry = "app"

AppBoot ==
    \/ start
    \/ connectOk
    \/ connectFail
    \/ initOk
    \/ initFail
    \/ disconnected
    \/ reconnected

NextApp ==
    \/ AppBoot
    \/ \E c \in pending, f \in Faults : PostUsersDone(c, f)
    \/ \E c \in pending, f \in Faults : PutUserDone(c, f)
    \/ \E b \in StringBodies : PostUsers(b)
    \/ \E i \in WriteIds, b \in StringUpdates : PutUser(i, b)

SpecApp == InitApp /\ [][NextApp]_vars

\* SpecValidation: every route that validates, with every body above and with
\* malformed and well-formed ids.
ProbeIds == 0..1

NextValidation ==
    \/ Boot
    \/ \E c \in pending, f \in Faults : PostUsersDone(c, f)
    \/ \E c \in pending, f \in Faults : LegacyPostUsersDone(c, f)
    \/ \E c \in pending, f \in Faults : GetUserDone(c, f)
    \/ \E c \in pending, f \in Faults : PutUserDone(c, f)
    \/ \E c \in pending, f \in Faults : DeleteUserDone(c, f)
    \/ \E b \in CreateBodies : PostUsers(b)
    \/ \E b \in CreateBodies : LegacyPostUsers(b)
    \/ \E i \in ProbeIds : GetUser(i)
    \/ \E b \in UpdateBodies : PutUser(1, b)
    \/ PutUser(0, Body(Str(nM), Undefined))
    \/ \E i \in ProbeIds : DeleteUser(i)

SpecValidation == Init /\ [][NextValidation]_vars

\* SpecDeletes: app.ts with creates, gets and deletes.
SeedBodies == { Body(Str(nA), Str(eA)), Body(Str(nM), Str(eB)) }

NextDeletes ==
    \/ AppBoot
    \/ \E c \in pending, f \in Faults : PostUsersDone(c, f)
    \/ \E c \in pending, f \in Faults : GetUserDone(c, f)
    \/ \E c \in pending, f \in Faults : DeleteUserDone(c, f)
    \/ \E b \in SeedBodies : PostUsers(b)
    \/ \E i \in Ids : GetUser(i)
    \/ \E i \in Ids : DeleteUser(i)

SpecDeletes == InitApp /\ [][NextDeletes]_vars

\* SpecPaged: app.ts with creates and paged queries, the clock running, the
\* connection up, and a client that sends one paged query at a time.
MaxPage == 2       \* pages asked for: 1..MaxPage

PageSizes == {1, 2}

PagedBodies ==
    SeedBodies \cup { Body(Str(nA), Str(<<"c", "@", "b", ".", "c">>)) }

PagedQueries ==
    { Query(p, l, "name", asc, <<>>, <<>>) : p \in 1..MaxPage, l \in PageSizes }
    \cup
    { Query(1, 2, "createdAt", desc, <<>>, <<>>),
      Query(2, 1, "createdAt", desc, <<>>, <<>>),
      Query(1, 2, "email", asc, <<" ", "A", "@", "b", ".", "c">>, <<"m">>),
      Query(1, 2, "updatedAt", desc, <<>>, <<"N">>),
      Query(1, 1, "bogus", asc, <<>>, <<>>),
      Query(0, LimitCap + 1, "name", <<"A", "S", "C">>, <<>>, <<>>) }

NextPaged ==
    \/ start
    \/ connectOk
    \/ connectFail
    \/ initOk
    \/ initFail
    \/ tick
    \/ PagedSteps
    \/ \E c \in pending : PostUsersDone(c, "none")
    \/ \E b \in PagedBodies : PostUsers(b)
    \/ \E q \in PagedQueries : (\A c \in pending : c.op # "list") /\ GetPaged(q)

SpecPaged == InitApp /\ [][NextPaged]_vars

\* ------------------------------------------------------------------ claims
StoreIds == { u.id : u \in store }

\* The step answers the call c.
Answered(c) == c \in pending /\ \A d \in pending' : d.rid # c.rid

\* The step takes a request and answers it at once, without a store call.
AnsweredAtOnce == nreq' = nreq + 1 /\ pending' = pending

UniqueEmails == \A u, v \in store : u.email = v.email => u = v

\* The email the store would hold for the call c, and whether another
\* document already holds it.
CallEmail(c) == ToLowerCase(Trim(c.doc.email))

WouldDuplicate(c) ==
    \/ /\ c.op = "create"
       /\ \E u \in store : u.email = CallEmail(c)
    \/ /\ c.op = "update"
       /\ c.doc.email.t = "string"
       /\ c.id \in StoreIds
       /\ \E u \in store : u.id # c.id /\ u.email = ToLowerCase(Trim(c.doc.email.s))


\* C1: in every state no two stored documents share an email, however creates
\* and updates accepted after the server began to listen interleave; and a
\* create or update that would give a second document an email another one
\* holds is answered with a failure and leaves the store as it was.
C1_EmailUnique ==
    [][ /\ UniqueEmails'
        /\ \A c \in pending :
             Answered(c) /\ WouldDuplicate(c) =>
                 store' = store /\ last'.status >= 400 ]_vars

\* C1 witness: an update that would have copied another document's email was
\* refused with the duplicate-key failure while both documents are stored.
C1_Witness ==
    /\ last.op = "update"
    /\ last.status = 409
    /\ last.err = DuplicateKey
    /\ Cardinality(store) = 2

\* The email of the body of the request answered last, as the store holds
\* emails: trimmed and lowercased.
LastEmail == ToLowerCase(Trim(last.body.email.s))

\* C2: a create whose email equals, after trimming and lowercasing, the email
\* of a document an earlier create stored is answered 409 "Email already
\* exists." and the store holds exactly one document with that email.  (The
\* request is one the store was asked about without a fault, or one answered
\* before the store was asked.)
C2_DuplicateCreateIs409 ==
    ( /\ last.op = "create"
      /\ isUserInput(last.body)
      /\ Trim(last.body.name.s) # <<>>
      /\ entry = "app" => last.rs = Connected
      /\ last.err.name \notin {"MongoNetworkError"}
      /\ last.err.code # 13
      /\ \E u \in store : u.id # last.id /\ u.email = LastEmail )
    => /\ last.status = 409
       /\ last.error = "Email already exists."
       /\ Cardinality({ u \in store : u.email = LastEmail }) = 1

\* C2, the part the code keeps: the same with emails that differ in letter
\* case only (no white space around the request's email).
C2_CaseOnly ==
    ( /\ last.op = "create"
      /\ isUserInput(last.body)
      /\ Trim(last.body.name.s) # <<>>
      /\ Trim(last.body.email.s) = last.body.email.s
      /\ entry = "app" => last.rs = Connected
      /\ last.err.name \notin {"MongoNetworkError"}
      /\ last.err.code # 13
      /\ \E u \in store : u.id # last.id /\ u.email = LastEmail )
    => /\ last.status = 409
       /\ last.error = "Email already exists."
       /\ Cardinality({ u \in store : u.email = LastEmail }) = 1

\* C6: every stored document has a name that is not empty and equals its own
\* trimmed form, and an email that equals its own trimmed, lowercased form.
C6_StoredNormalised ==
    \A u \in store :
        /\ u.name # <<>>
        /\ u.name = Trim(u.name)
        /\ u.email = ToLowerCase(Trim(u.email))

\* C6 witness: a create whose name came with white space around it and whose
\* email came in upper case was stored.
C6_Witness ==
    /\ last.op = "create"
    /\ last.status = 201
    /\ last.body.name.s # Trim(last.body.name.s)
    /\ last.body.email.s # ToLowerCase(last.body.email.s)
    /\ \E u \in store : u.id = last.id

\* C9: a create or update is answered 409 exactly when the store refused the
\* write with its duplicate-key failure, and every other failure of the store
\* call is answered 500.
C9_ConflictOnlyOnDuplicateKey ==
    (last.op \in {"create", "update"} /\ last.calls = 1) =>
        /\ last.status = 409 <=> last.err.code = DupKeyCode
        /\ (last.err # NoErr /\ last.err.code # DupKeyCode) => last.status = 500

\* C10: an update changes the document with the id it names and no other, and
\* of that document only the fields its body gives: without a name in the
\* body the name stays, without an email the email stays; an update answered
\* 400, 404 or 409 changes nothing.
C10_UpdateFrame ==
    [][ /\ \A c \in pending :
             (Answered(c) /\ c.op = "update") =>
                 /\ \A u \in store : u.id # c.id => u \in store'
                 /\ { u.id : u \in store' } = StoreIds
                 /\ \A u \in store, v \in store' :
                      (u.id = c.id /\ v.id = c.id) =>
                          /\ v.createdAt = u.createdAt
                          /\ c.body.name.t = "undefined" => v.name = u.name
                          /\ c.body.email.t = "undefined" => v.email = u.email
                 /\ last'.status \in {400, 404, 409} => store' = store
        /\ (AnsweredAtOnce /\ last'.op = "update") => store' = store ]_vars

\* C10 witness: an update that gave a name only was applied; the document
\* has the new name and the email it had.
C10_Witness ==
    /\ last.op = "update"
    /\ last.status = 200
    /\ last.body.email.t = "undefined"
    /\ \E u \in store : u.id = last.id /\ u.name = nM /\ u.email = eA


\* The moves of start() and shutdown().
StartMoves ==
    { <<"uninitialized", "connecting">>, <<"connecting", "ready">>,
      <<"ready", "serving">>, <<"uninitialized", "failed">>,
      <<"connecting", "failed">>, <<"ready", "failed">>,
      <<"serving", "stopped">> }

\* C3: startup goes uninitialized, connecting, ready, serving; the server
\* begins to listen only in the step in which index initialisation completes,
\* over a connection that succeeded; without a connection string, or when
\* connecting or index setup fails, the process has reported the error, ends
\* with a non-zero exit code and has never listened.
C3_StartupOrder ==
    [][ /\ pc' # pc => << pc, pc' >> \in StartMoves
        /\ (listening' /\ ~listening) =>
               pc = "ready" /\ readyState = Connected /\ indexBuilt' /\ pc' = "serving"
        /\ listening' => indexBuilt'
        /\ ~hasUri => pc' \in {"uninitialized", "failed"} /\ ~listening'
        /\ pc' = "failed" => reported' /\ exitCode' > 0 /\ ~listening'
        /\ pc = "failed" => pc' = "failed" /\ exitCode' = exitCode ]_vars

\* C3 witness: the server listens, after the index was built, and has
\* answered a request.
C3_Witness ==
    /\ pc = "serving"
    /\ listening
    /\ indexBuilt
    /\ last.op # "none"

\* C4: a data-access request handled while the connection is not connected is
\* answered 503 "Database not connected" and makes no store call.
C4_UnavailableWhenNotConnected ==
    /\ \A c \in pending : c.rs = Connected
    /\ (last.op # "none" /\ last.rs # Connected) =>
           /\ last.status = 503
           /\ last.error = "Database not connected"
           /\ last.calls = 0

\* C4, the part the code keeps: the five routes of app.ts are guarded.
C4_AppRoutesGuarded ==
    entry = "app" => C4_UnavailableWhenNotConnected


\* The step issues the store call c.
Issued(c) == c \in pending' /\ \A d \in pending : d.rid # c.rid

\* A request the claim C5 is about: a create whose name or email is absent
\* or no string, a create or update with a field that is present and no
\* string or an email that does not have the shape, a request naming a
\* malformed id.
Malformed(op, id, body) ==
    \/ /\ op = "create"
       /\ \/ body.name.t # "string"
          \/ body.email.t # "string"
          \/ ~looksLikeEmail(body.email.s)
    \/ /\ op = "update"
       /\ \/ body.name.t \notin {"string", "undefined"}
          \/ body.email.t \notin {"string", "undefined"}
          \/ body.email.t = "string" /\ ~looksLikeEmail(body.email.s)
          \/ id = 0
    \/ /\ op \in {"get", "delete"}
       /\ id = 0

Acked(id, log) == \E k \in 1..Len(log) : log[k] = id

\* C7: a delete the store answers removes exactly the document with its id
\* and is answered 204 when there is one, and is answered 404 and changes
\* nothing when there is none; a get of an id whose deletion was answered 204
\* is answered 404; an id once deleted is never stored again; and each id
\* that was stored and is gone had its deletion answered 204 exactly once,
\* however many deletes of it were in flight together.
C7_DeleteOnce ==
    [][ /\ \A c \in pending :
             (Answered(c) /\ c.op = "delete" /\ last'.err = NoErr) =>
                 IF c.id \in StoreIds
                   THEN /\ last'.status = 204
                        /\ store' = { u \in store : u.id # c.id }
                        /\ Cardinality(store') = Cardinality(store) - 1
                   ELSE /\ last'.status = 404
                        /\ store' = store
        /\ \A c \in pending :
             (Answered(c) /\ c.op = "get" /\ last'.err = NoErr /\ Acked(c.id, acks))
                 => last'.status = 404
        /\ \A k \in 1..Len(acks') :
             /\ acks'[k] \notin { u.id : u \in store' }
             /\ \A j \in 1..Len(acks') : acks'[j] = acks'[k] => j = k
        /\ \A id \in 1..(nextId' - 1) :
             id \notin { u.id : u \in store' } => Acked(id, acks') ]_vars

\* C7 witness: two deletes of one stored document were in flight together;
\* one was answered 204 and the other, answered last, 404.
C7_Witness ==
    /\ last.op = "delete"
    /\ last.status = 404
    /\ last.err = NoErr
    /\ last.live
    /\ acks = << last.id >>

\* The least k with k * l >= t.
Ceiling(t, l) == CHOOSE k \in 0..t : k * l >= t /\ (k = 0 \/ (k - 1) * l < t)

Max(a, b) == IF a > b THEN a ELSE b
Min(a, b) == IF a < b THEN a ELSE b

\* C8: a paged query with an allowed sortBy, page p >= 1 and limit l in
\* 1..100, with no write reaching the store between its two store calls, is
\* answered with total = T, the number of documents that match,
\* totalPages = max(1, ceil(T / l)), hasNext = (p < totalPages),
\* hasPrev = (p > 1), and exactly min(l, max(0, T - (p - 1) * l)) rows: the
\* documents at positions (p - 1) * l + 1 .. p * l of the matching documents
\* in the order asked for.
C8_PageWindow ==
    ( /\ last.op = "list"
      /\ last.status = 200
      /\ last.quiet
      /\ last.query.page >= 1
      /\ last.query.limit \in 1..LimitCap )
    => LET p == last.query.page
           l == last.query.limit
           M == Matching(last.query)
           T == Cardinality(M)
           pages == Max(1, Ceiling(T, l))
           dir == IF ToLowerCase(last.query.order) = asc THEN 1 ELSE -1
       IN  /\ last.query.sortBy \in AllowedSort
           /\ last.meta.total = T
           /\ last.meta.totalPages = pages
           /\ last.meta.hasNext = (p < pages)
           /\ last.meta.hasPrev = (p > 1)
           /\ Len(last.rows) = Min(l, Max(0, T - (p - 1) * l))
           /\ \E f \in Sorted(M, last.query.sortBy, dir) :
                \A i \in 1..Len(last.rows) :
                    last.rows[i] = Project(f[(p - 1) * l + i])

\* C8 witness: page 2 of two matching documents, one to a page: one row, a
\* previous page and no next one.
C8_Witness ==
    /\ last.op = "list"
    /\ last.status = 200
    /\ last.quiet
    /\ last.query.page = 2
    /\ last.query.limit = 1
    /\ last.meta.total = 2
    /\ Len(last.rows) = 1
    /\ last.meta.hasPrev
    /\ ~last.meta.hasNext

\* C8 without its premise that no write comes between the two store calls.
C8_PageWindowUnderWrites ==
    ( /\ last.op = "list"
      /\ last.status = 200 )
    => Len(last.rows) =
         Min(last.query.limit,
             Max(0, last.meta.total - (last.query.page - 1) * last.query.limit))

====
